---- MODULE Spec2Model ----
(***************************************************************************)
(* The etcd image descriptor of src/etcd/mod.rs: the Etcd value (name,     *)
(* tag), its constructors and builders, the fixed launch arguments of      *)
(* EtcdArgs and the Image accessors a container harness reads.             *)
(*                                                                         *)
(* Strings are TLA+ strings (sequences of characters: Len, \o and SubSeq   *)
(* act on them).  The builder calls made so far are kept in the history    *)
(* variable hist; out is the value the last accessor call returned.        *)
(***************************************************************************)
EXTENDS Integers, Sequences

VARIABLES etcd, hist, out, stdout, stderr, ready

vars == <<etcd, hist, out, stdout, stderr, ready>>

(* ------------------------------ bounds --------------------------------- *)

\* Longest chain of calls on one descriptor, its constructor included.
MaxCalls == 4

\* Most chunks the container writes to its two output streams together.
MaxLog == 3

(* ----------------------------- constants ------------------------------- *)

DEFAULT_IMAGE_NAME == "gcr.io/etcd-development/etcd"

DEFAULT_IMAGE_TAG == "v3.5.13"

ETCD_PORT == 2379

\* The image names and tags a test passes in: no call validates its
\* argument, so the empty string is one of them.
Names == {"", DEFAULT_IMAGE_NAME, "quay.io/coreos/etcd"}

Tags == {"", DEFAULT_IMAGE_TAG, "v3.4.10"}

(* ------------------------- the Etcd descriptor ------------------------- *)

\* struct Etcd { name: String, tag: String }
IsEtcd(d) == DOMAIN d = {"name", "tag"} /\ d.name \in STRING /\ d.tag \in STRING

\* impl Default for Etcd
default == [name |-> DEFAULT_IMAGE_NAME, tag |-> DEFAULT_IMAGE_TAG]

\* new, dropping its argument.
new_ignoresTag(t) == default

\* new, building the other field empty instead of from Default::default().
new_emptyName(t) == [name |-> "", tag |-> t]

\* Etcd::new(tag): Self { tag: tag.into(), ..Default::default() }
new(t) == [default EXCEPT !.tag = t]

\* name, assigning the wrong field.
name_setsTag(self, n) == [self EXCEPT !.tag = n]

\* name, rejecting an empty argument.
name_validating(self, n) ==
    IF n = "" THEN [error |-> "empty image name"] ELSE [self EXCEPT !.name = n]

\* name, overriding only a name that is still the default one.
name_firstWins(self, n) ==
    IF self.name = DEFAULT_IMAGE_NAME THEN [self EXCEPT !.name = n] ELSE self

\* Etcd::name(mut self, name): self.name = name.into(); self
name(self, n) == [self EXCEPT !.name = n]

\* tag, rebuilding the descriptor from the default as new does.
tag_resetsName(self, t) == [default EXCEPT !.tag = t]

\* Etcd::tag(mut self, tag): self.tag = tag.into(); self
tag(self, t) == [self EXCEPT !.tag = t]

\* Image::name(&self) and Image::tag(&self): clones of the fields.
Image_name(self) == self.name

\* Image::tag, cloning the other field.
Image_tag_clonesName(self) == self.name

Image_tag(self) == self.tag

(* --------------------------- launch arguments -------------------------- *)

DigitChar(d) ==
    CASE d = 0 -> "0" [] d = 1 -> "1" [] d = 2 -> "2" [] d = 3 -> "3"
      [] d = 4 -> "4" [] d = 5 -> "5" [] d = 6 -> "6" [] d = 7 -> "7"
      [] d = 8 -> "8" [] d = 9 -> "9"

\* Display of a u16 as format! prints it: decimal, no padding, no sign.
RECURSIVE Display(_)
Display(n) ==
    IF n < 10 THEN DigitChar(n)
    ELSE Display(n \div 10) \o DigitChar(n % 10)

\* into_iterator, with the two URLs exchanged.
into_iterator_swapped ==
    << "etcd",
       "-advertise-client-urls",
       "http://0.0.0.0:" \o Display(ETCD_PORT),
       "-listen-client-urls",
       "http://127.0.0.1:" \o Display(ETCD_PORT) >>

\* EtcdArgs::into_iterator(self)
into_iterator ==
    << "etcd",
       "-advertise-client-urls",
       "http://127.0.0.1:" \o Display(ETCD_PORT),
       "-listen-client-urls",
       "http://0.0.0.0:" \o Display(ETCD_PORT) >>

(* -------------------------- readiness conditions ----------------------- *)

\* WaitFor::message_on_stderr(message), as Image::ready_conditions builds it.
message_on_stderr(m) == [kind |-> "StdErrMessage", message |-> m]

message_on_stdout(m) == [kind |-> "StdOutMessage", message |-> m]

\* ready_conditions, waiting on the other stream.
ready_conditions_stdout(self) ==
    << message_on_stdout("ready to serve client requests") >>

\* Image::ready_conditions(&self)
ready_conditions(self) == << message_on_stderr("ready to serve client requests") >>

(* ------------------ the harness waiting for readiness ------------------ *)

\* The text of a stream: its chunks, in the order they were written.
RECURSIVE Text(_)
Text(chunks) ==
    IF chunks = <<>> THEN "" ELSE Head(chunks) \o Text(Tail(chunks))

\* s contains m as a substring (str::contains).
Contains(s, m) ==
    \E i \in 0..(Len(s) - Len(m)) : SubSeq(s, i + 1, i + Len(m)) = m

\* What a WaitFor condition asks of the container's two output streams.
Satisfied(c, so, se) ==
    CASE c.kind = "StdErrMessage" -> Contains(se, c.message)
      [] c.kind = "StdOutMessage" -> Contains(so, c.message)

AllSatisfied(conds, so, se) ==
    \A i \in 1..Len(conds) : Satisfied(conds[i], so, se)

\* What the container may write in one chunk.
Chunks == {"etcd: ", "ready to serve client ", "requests"}

(* ------------------------------- actions ------------------------------- *)

Call(k, a) == [kind |-> k, arg |-> a]

NoOut == [kind |-> "none", value |-> <<>>]

Init ==
    /\ etcd = default
    /\ hist = << Call("default", "") >>
    /\ out = NoOut
    /\ stdout = <<>>
    /\ stderr = <<>>
    /\ ready = FALSE

\* let etcd = Etcd::default();
Default ==
    /\ etcd' = default
    /\ hist' = << Call("default", "") >>
    /\ out' = NoOut
    /\ UNCHANGED <<stdout, stderr, ready>>

\* let etcd = Etcd::new(t);
New(t) ==
    /\ etcd' = new(t)
    /\ hist' = << Call("new", t) >>
    /\ out' = NoOut
    /\ UNCHANGED <<stdout, stderr, ready>>

\* let etcd = etcd.name(n);
Name(n) ==
    /\ Len(hist) < MaxCalls
    /\ etcd' = name(etcd, n)
    /\ hist' = Append(hist, Call("name", n))
    /\ out' = NoOut
    /\ UNCHANGED <<stdout, stderr, ready>>

\* let etcd = etcd.tag(t);
Tag(t) ==
    /\ Len(hist) < MaxCalls
    /\ etcd' = tag(etcd, t)
    /\ hist' = Append(hist, Call("tag", t))
    /\ out' = NoOut
    /\ UNCHANGED <<stdout, stderr, ready>>

\* Image::name(&etcd)
ImageName ==
    /\ out' = [kind |-> "name", value |-> Image_name(etcd)]
    /\ UNCHANGED <<etcd, hist, stdout, stderr, ready>>

\* Image::tag(&etcd)
ImageTag ==
    /\ out' = [kind |-> "tag", value |-> Image_tag(etcd)]
    /\ UNCHANGED <<etcd, hist, stdout, stderr, ready>>

\* EtcdArgs::default().into_iterator().collect()
IntoIterator ==
    /\ out' = [kind |-> "args", value |-> into_iterator]
    /\ UNCHANGED <<etcd, hist, stdout, stderr, ready>>

\* Image::ready_conditions(&etcd)
ReadyConditions ==
    /\ out' = [kind |-> "ready_conditions", value |-> ready_conditions(etcd)]
    /\ UNCHANGED <<etcd, hist, stdout, stderr, ready>>

Next ==
    \/ Default
    \/ \E t \in Tags : New(t)
    \/ \E n \in Names : Name(n)
    \/ \E t \in Tags : Tag(t)
    \/ ImageName
    \/ ImageTag
    \/ IntoIterator
    \/ ReadyConditions

Spec == Init /\ [][Next]_vars

(* A started container: the harness holds the descriptor's readiness       *)
(* conditions and reads the container's output until they are satisfied.   *)

InitWait ==
    /\ \E t \in Tags, n \in Names :
          /\ hist = << Call("new", t), Call("name", n) >>
          /\ etcd = name(new(t), n)
    /\ out = [kind |-> "ready_conditions", value |-> ready_conditions(etcd)]
    /\ stdout = <<>>
    /\ stderr = <<>>
    /\ ready = FALSE

WriteStdout(c) ==
    /\ Len(stdout) + Len(stderr) < MaxLog
    /\ stdout' = Append(stdout, c)
    /\ ready' = (ready \/ AllSatisfied(out.value, Text(stdout'), Text(stderr)))
    /\ UNCHANGED <<etcd, hist, out, stderr>>

WriteStderr(c) ==
    /\ Len(stdout) + Len(stderr) < MaxLog
    /\ stderr' = Append(stderr, c)
    /\ ready' = (ready \/ AllSatisfied(out.value, Text(stdout), Text(stderr')))
    /\ UNCHANGED <<etcd, hist, out, stdout>>

NextWait ==
    \/ \E c \in Chunks : WriteStdout(c)
    \/ \E c \in Chunks : WriteStderr(c)

SpecWait == InitWait /\ [][NextWait]_vars

(* ------------------------------ properties ----------------------------- *)

Last(h) == h[Len(h)]

\* The argument of the last call of kind k in h, or dflt when there is none.
RECURSIVE LastArg(_, _, _)
LastArg(h, k, dflt) ==
    IF h = <<>> THEN dflt
    ELSE IF Last(h).kind = k THEN Last(h).arg
    ELSE LastArg(SubSeq(h, 1, Len(h) - 1), k, dflt)

\* C1: Etcd::new(t) has tag t and the default image name
\* "gcr.io/etcd-development/etcd", for every tag t.
C1_NewTag ==
    (Len(hist) = 1 /\ hist[1].kind = "new")
        => /\ etcd.tag = hist[1].arg
           /\ etcd.name = "gcr.io/etcd-development/etcd"

C1_Witness ==
    /\ hist = << Call("new", "v3.4.10") >>
    /\ etcd.tag = "v3.4.10"

\* C2: Etcd::default().name(n) has name n and the default tag "v3.5.13",
\* for every name n.
C2_DefaultName ==
    (Len(hist) = 2 /\ hist[1].kind = "default" /\ hist[2].kind = "name")
        => /\ etcd.name = hist[2].arg
           /\ etcd.tag = "v3.5.13"

C2_Witness ==
    /\ hist = << Call("default", ""), Call("name", "quay.io/coreos/etcd") >>
    /\ etcd.name = "quay.io/coreos/etcd"

\* C3: Etcd::default() has name "gcr.io/etcd-development/etcd" and tag
\* "v3.5.13", and Image::name() and Image::tag() return the stored fields.
C3_Default ==
    /\ (Len(hist) = 1 /\ hist[1].kind = "default")
          => /\ etcd.name = "gcr.io/etcd-development/etcd"
             /\ etcd.tag = "v3.5.13"
             /\ out.kind = "name" => out.value = "gcr.io/etcd-development/etcd"
             /\ out.kind = "tag" => out.value = "v3.5.13"
    /\ out.kind = "name" => out.value = etcd.name
    /\ out.kind = "tag" => out.value = etcd.tag

C3_Witness ==
    /\ hist = << Call("default", "") >>
    /\ out = [kind |-> "tag", value |-> "v3.5.13"]

\* C4: the launch arguments are the same five strings, in this order, on
\* every call and for every descriptor, and the port in both URLs is
\* ETCD_PORT = 2379.
C4_LaunchArguments ==
    /\ ETCD_PORT = 2379
    /\ out.kind = "args"
          => out.value = << "etcd",
                            "-advertise-client-urls",
                            "http://127.0.0.1:2379",
                            "-listen-client-urls",
                            "http://0.0.0.0:2379" >>

C4_Witness ==
    /\ out.kind = "args"
    /\ Len(out.value) = 5
    /\ Len(hist) = 3
    /\ etcd = [name |-> "quay.io/coreos/etcd", tag |-> "v3.4.10"]

\* C5: ready_conditions() is exactly one condition, a message on the
\* standard-error stream with the text "ready to serve client requests":
\* the harness finds the container ready exactly when the text of stderr
\* contains that substring, whatever stdout holds.
C5_Readiness ==
    /\ out.kind = "ready_conditions"
    /\ Len(out.value) = 1
    /\ out.value[1].kind = "StdErrMessage"
    /\ out.value[1].message = "ready to serve client requests"
    /\ ready <=> Contains(Text(stderr), "ready to serve client requests")

C5_Witness ==
    /\ ready
    /\ stderr = << "etcd: ", "ready to serve client ", "requests" >>

\* C6, as stated: both fields are non-empty after any sequence of calls.
C6_NonEmpty ==
    etcd.name # "" /\ etcd.tag # ""

\* C6, amended: both fields are non-empty after any sequence of calls
\* whose name and tag arguments were all non-empty.
C6_NonEmptyGivenArgs ==
    (\A i \in 1..Len(hist) : hist[i].kind # "default" => hist[i].arg # "")
        => (etcd.name # "" /\ etcd.tag # "")

C6_Witness ==
    /\ hist = << Call("new", "v3.4.10"), Call("name", "quay.io/coreos/etcd"),
                 Call("tag", "v3.5.13") >>
    /\ etcd = [name |-> "quay.io/coreos/etcd", tag |-> "v3.5.13"]

\* C7: name(n) sets name to n and leaves tag as it was; tag(t) sets tag to
\* t and leaves name as it was, whatever the descriptor held before.
C7_Frame ==
    [][ (Len(hist') = Len(hist) + 1)
          => /\ Last(hist').kind = "name"
                  => (etcd'.name = Last(hist').arg /\ etcd'.tag = etcd.tag)
             /\ Last(hist').kind = "tag"
                  => (etcd'.tag = Last(hist').arg /\ etcd'.name = etcd.name)
      ]_vars

C7_Witness ==
    /\ hist = << Call("default", ""), Call("name", "quay.io/coreos/etcd"),
                 Call("tag", "v3.4.10") >>
    /\ etcd = [name |-> "quay.io/coreos/etcd", tag |-> "v3.4.10"]

\* C9: no operation fails: for every string argument, the empty one
\* included, the constructors and builders return a descriptor, and the
\* launch arguments and readiness conditions are returned as sequences.
C9_NoFailure ==
    /\ IsEtcd(etcd)
    /\ IsEtcd(default)
    /\ \A t \in Tags : IsEtcd(new(t)) /\ IsEtcd(tag(etcd, t))
    /\ \A n \in Names : IsEtcd(name(etcd, n))
    /\ Len(into_iterator) = 5
    /\ Len(ready_conditions(etcd)) = 1
    /\ Image_name(etcd) \in STRING
    /\ Image_tag(etcd) \in STRING

C9_Witness ==
    /\ Len(hist) = 3
    /\ hist[2] = Call("tag", "")
    /\ hist[3] = Call("name", "")
    /\ etcd = [name |-> "", tag |-> ""]

\* C10: after any chain of name and tag calls, name is the argument of the
\* last name call (or the constructor's name) and tag the argument of the
\* last tag call (or the constructor's tag); name and tag commute, and
\* default().tag(t) is new(t).
C10_LastWriteWins ==
    /\ etcd.name = LastArg(hist, "name", "gcr.io/etcd-development/etcd")
    /\ etcd.tag = LastArg(hist, "tag",
                          IF hist[1].kind = "new" THEN hist[1].arg ELSE "v3.5.13")
    /\ \A n \in Names, t \in Tags :
          name(tag(etcd, t), n) = tag(name(etcd, n), t)
    /\ \A t \in Tags : tag(default, t) = new(t)

C10_Witness ==
    /\ Len(hist) = 4
    /\ hist[2] = Call("name", "quay.io/coreos/etcd")
    /\ hist[3].kind = "tag"
    /\ hist[4] = Call("name", "")
    /\ etcd.name = ""

====
